---- MODULE Spec2Model ----
(***************************************************************************)
(* Model of cmd/handler.go: Handler.Merge (fan-out of one fetch task per   *)
(* exporter, join, merge by family name, optional deduplication, sorted    *)
(* encoding) and of the pure functions deduplicateMetricFamily and         *)
(* labelSignature.                                                         *)
(*                                                                         *)
(* Go strings are modelled as sequences of one-character strings; their    *)
(* byte order (used by sort.Strings) is given by Ascii.                    *)
(***************************************************************************)
EXTENDS Integers, Sequences, FiniteSets, TLC

VARIABLES
    Exporters,              \* Handler.Exporters
    ExportersHTTPTimeout,   \* Handler.ExportersHTTPTimeout
    Deduplicate,            \* Handler.Deduplicate
    mainPc,                 \* position of the goroutine running Merge
    next,                   \* index of the next entry of Exporters to spawn
    wg,                     \* counter of the sync.WaitGroup
    responsesMu,            \* 0 when unlocked, else the task holding it
    responses,              \* the accumulator slice: the number of leading nil
                            \* entries and the entries after them
    taskPc,                 \* position of each fetch goroutine
    taskPart,               \* each task's local variable part
    taskLen,                \* slice length read by a task's append
    mfs,                    \* the merged map
    names,                  \* the sorted family names
    encoded,                \* names handed to enc.Encode so far
    output,                 \* what has been written to w
    encErr,                 \* enc.Encode returned an error
    mf,                     \* argument of deduplicateMetricFamily (DedupSpec)
    once,                   \* deduplicateMetricFamily(mf)
    twice,                  \* deduplicateMetricFamily of that result
    dpc,                    \* position of the DedupSpec driver
    peer                    \* the local variables of a second, concurrent
                            \* call of Merge on the same Handler (PairSpec)

mergeVars == <<Exporters, ExportersHTTPTimeout, Deduplicate, mainPc, next, wg,
               responsesMu, responses, taskPc, taskPart, taskLen, mfs, names,
               encoded, output, encErr>>
dedupVars == <<mf, once, twice, dpc>>
vars == <<mergeVars, dedupVars, peer>>

(***************************************************************************)
(* Bounds                                                                  *)
(***************************************************************************)
MaxExporters == 2
MaxSeries == 3
MaxPairExporters == 1
Beyond == 2

(***************************************************************************)
(* Strings                                                                 *)
(***************************************************************************)
Ascii == (("," :> 44) @@ ("1" :> 49) @@ ("2" :> 50) @@ ("=" :> 61) @@
          ("a" :> 97) @@ ("b" :> 98) @@ ("g" :> 103) @@ ("h" :> 104) @@
          ("p" :> 112) @@ ("t" :> 116) @@ ("u" :> 117))

\* s < t in Go: bytewise lexicographic order
StrLess(s, t) ==
    \E k \in 0..Len(s) :
        /\ k <= Len(t)
        /\ \A j \in 1..k : s[j] = t[j]
        /\ \/ k = Len(s) /\ k < Len(t)
           \/ k < Len(s) /\ k < Len(t) /\ Ascii[s[k+1]] < Ascii[t[k+1]]

\* insertion with the comparison reversed
InsertSortedDescending(x, sorted) ==
    LET p == Cardinality({j \in 1..Len(sorted) : StrLess(x, sorted[j])})
    IN  SubSeq(sorted, 1, p) \o <<x>> \o SubSeq(sorted, p + 1, Len(sorted))

\* insertion of x into an ascending sequence
InsertSorted(x, sorted) ==
    LET p == Cardinality({j \in 1..Len(sorted) : ~StrLess(x, sorted[j])})
    IN  SubSeq(sorted, 1, p) \o <<x>> \o SubSeq(sorted, p + 1, Len(sorted))

RECURSIVE SortStrings(_)
SortStrings(seq) ==
    IF seq = <<>> THEN <<>>
    ELSE InsertSorted(seq[Len(seq)], SortStrings(SubSeq(seq, 1, Len(seq) - 1)))

RECURSIVE Join(_, _)
Join(parts, sep) ==
    IF parts = <<>> THEN <<>>
    ELSE IF Len(parts) = 1 THEN parts[1]
    ELSE parts[1] \o sep \o Join(Tail(parts), sep)

(***************************************************************************)
(* deduplicateMetricFamily and labelSignature                              *)
(***************************************************************************)
\* fmt.Sprintf("%s=%s", label.GetName(), label.GetValue())
SprintfPair(label) == label.Name \o <<"=">> \o label.Value

labelSignature(labels) ==
    LET parts == [j \in 1..Len(labels) |-> SprintfPair(labels[j])]
    IN  Join(SortStrings(parts), <<",">>)

\* the loop without seen[signature] = true
RECURSIVE DedupLoopNoMark(_, _, _, _)
DedupLoopNoMark(ms, from, seen, deduplicated) ==
    IF from > Len(ms) THEN deduplicated
    ELSE LET signature == labelSignature(ms[from].Label)
         IN  IF signature \in seen
             THEN DedupLoopNoMark(ms, from + 1, seen, deduplicated)
             ELSE DedupLoopNoMark(ms, from + 1, seen,
                                  Append(deduplicated, ms[from]))

\* the loop of deduplicateMetricFamily over ms[from..], with the seen map
\* and the deduplicated slice built so far
RECURSIVE DedupLoop(_, _, _, _)
DedupLoop(ms, from, seen, deduplicated) ==
    IF from > Len(ms) THEN deduplicated
    ELSE LET signature == labelSignature(ms[from].Label)
         IN  IF signature \in seen
             THEN DedupLoop(ms, from + 1, seen, deduplicated)
             ELSE DedupLoop(ms, from + 1, seen \cup {signature},
                            Append(deduplicated, ms[from]))

\* the range starting at the second series
deduplicateMetricFamilySkipFirst(f) ==
    [f EXCEPT !.Metric = DedupLoop(f.Metric, 2, {}, <<>>)]

deduplicateMetricFamily(f) ==
    [f EXCEPT !.Metric = DedupLoop(f.Metric, 1, {}, <<>>)]

(***************************************************************************)
(* The exporters of the model: what each URL answers to an HTTP GET and    *)
(* what expfmt.TextParser makes of the body.                               *)
(***************************************************************************)
LabelPair(n, v) == [Name |-> n, Value |-> v]
Metric(labels, v) == [Label |-> labels, Value |-> v]
MetricFamily(n, help, type, ms) ==
    [Name |-> n, Help |-> help, Type |-> type, Metric |-> ms]

UP == <<"u", "p">>
HTTP == <<"h", "t", "t", "p">>

A1 == <<LabelPair(<<"a">>, <<"1">>)>>
A2 == <<LabelPair(<<"a">>, <<"2">>)>>
B1 == <<LabelPair(<<"b">>, <<"1">>)>>
B2 == <<LabelPair(<<"b">>, <<"2">>)>>

URLs == {"s1", "s2", "e500", "bad", "down", "slow"}

\* the map with no entry: a nil map, or a map parsed from no family
NilMap == <<>>

\* (part, err) of tp.TextToMetricFamilies on the body served by u
TextToMetricFamilies(u) ==
    CASE u = "s1" ->
           [part |-> (UP :> MetricFamily(UP, "h1", "GAUGE", <<Metric(A1, 1)>>))
                     @@ (HTTP :> MetricFamily(HTTP, "reqs", "COUNTER",
                                              <<Metric(B1, 5)>>)),
            err |-> FALSE]
      [] u = "s2" ->
           [part |-> (UP :> MetricFamily(UP, "h2", "UNTYPED",
                                         <<Metric(A1, 0), Metric(A2, 1)>>))
                     @@ (HTTP :> MetricFamily(HTTP, "reqs2", "COUNTER",
                                              <<Metric(A1, 3)>>)),
            err |-> FALSE]
      [] u = "e500" ->
           [part |-> (UP :> MetricFamily(UP, "h3", "GAUGE", <<Metric(A2, 7)>>)),
            err |-> FALSE]
      [] u = "bad" ->
           \* a malformed body: the families parsed before the error, and err
           [part |-> (HTTP :> MetricFamily(HTTP, "bad", "COUNTER",
                                           <<Metric(B2, 9)>>)),
            err |-> TRUE]
      [] OTHER -> [part |-> NilMap, err |-> FALSE]

\* the HTTP status u answers with
StatusCode(u) == IF u = "e500" THEN 500 ELSE 200

\* outcome of httpClient.Get(u) with http.Client{Timeout: timeout}:
\* "err" (err != nil), "resp" (a response of any status, err == nil), or
\* "blocked" (the call has not returned and never will)
HttpGet(u, timeout) ==
    CASE u = "down" -> "err"
      [] u = "slow" -> IF timeout > 0 THEN "err" ELSE "blocked"
      [] OTHER      -> "resp"

(***************************************************************************)
(* Handler.Merge                                                           *)
(***************************************************************************)
ResponsesLen == 1024

\* make([]map[string]*prom.MetricFamily, n): n nil maps
MakeResponses(n) == [nils |-> n, appended |-> <<>>]

\* len(r)
SliceLen(r) == r.nils + Len(r.appended)

\* r[j - 1]
SliceAt(r, j) == IF j <= r.nils THEN NilMap ELSE r.appended[j - r.nils]

\* the slice whose entries are those of the sequence parts
SliceOf(parts) == [nils |-> 0, appended |-> parts]

\* an accumulator that takes no more than ResponsesLen appended entries
StoreAfterCapped(r, len, part) ==
    IF Len(r.appended) >= ResponsesLen THEN r
    ELSE [r EXCEPT !.appended = Append(SubSeq(@, 1, len - r.nils), part)]

\* r with part stored after its first len entries (len >= r.nils)
StoreAfter(r, len, part) ==
    [r EXCEPT !.appended = Append(SubSeq(@, 1, len - r.nils), part)]

Tasks == 1..Len(Exporters)

\* the iteration with mfs[n] = mf in both branches
MergePartOverwrite(m, part) ==
    [n \in DOMAIN m \cup DOMAIN part |->
        IF n \in DOMAIN part THEN part[n] ELSE m[n]]

\* the iteration appending the existing series to the incoming family
MergePartLastMeta(m, part) ==
    [n \in DOMAIN m \cup DOMAIN part |->
        IF n \in DOMAIN m
        THEN IF n \in DOMAIN part
             THEN [part[n] EXCEPT !.Metric = m[n].Metric \o @]
             ELSE m[n]
        ELSE part[n]]

\* one iteration of the outer merge loop: for n, mf := range part
MergePart(m, part) ==
    [n \in DOMAIN m \cup DOMAIN part |->
        IF n \in DOMAIN m
        THEN IF n \in DOMAIN part
             THEN [m[n] EXCEPT !.Metric = @ \o part[n].Metric]
             ELSE m[n]
        ELSE part[n]]

\* for _, part := range r[lo..hi], starting from the map m. The range is
\* walked left to right; it is halved, and the middle index and the map
\* reached there are computed (each as the one element of a set) before the
\* right half is walked, so that evaluation stays shallow
RECURSIVE MergeRange(_, _, _, _)
MergeHalves(m, r, lo, mid, hi) ==
    CHOOSE res \in {MergeRange(left, r, mid + 1, hi) :
                       left \in {MergeRange(m, r, lo, mid)}} : TRUE

MergeRange(m, r, lo, hi) ==
    IF lo > hi THEN m
    ELSE IF lo = hi THEN MergePart(m, SliceAt(r, lo))
    ELSE CHOOSE res \in {MergeHalves(m, r, lo, mid, hi) :
                            mid \in {(lo + hi) \div 2}} : TRUE

\* the merge loop over the slice r
MergeAll(r) == MergeRange(NilMap, r, 1, SliceLen(r))

RECURSIVE SetToSeq(_)
SetToSeq(S) ==
    IF S = {} THEN <<>>
    ELSE LET x == CHOOSE y \in S : TRUE IN <<x>> \o SetToSeq(S \ {x})

\* what enc.Encode writes for a family in the text format
SampleLine(f, m) == [line |-> "sample", name |-> f.Name,
                     labels |-> m.Label, value |-> m.Value]
EncodeText(f) ==
    << [line |-> "HELP", name |-> f.Name, text |-> f.Help],
       [line |-> "TYPE", name |-> f.Name, text |-> f.Type] >>
    \o [j \in 1..Len(f.Metric) |-> SampleLine(f, f.Metric[j])]

\* wg.Wait() returning without waiting
WgWaitNoJoin == TRUE

\* wg.Wait() returns when the counter is zero
WgWait == wg = 0

\* responsesMu.Lock() succeeding whoever holds the mutex
MutexFreeNoLock == TRUE

\* responsesMu.Lock() succeeds when the mutex is not held
MutexFree == responsesMu = 0

\* the parse error ignored
ParseFailedIgnored(r) == FALSE

\* if err != nil after tp.TextToMetricFamilies
ParseFailed(r) == r.err

Spawn ==
    /\ mainPc = "loop"
    /\ next <= Len(Exporters)
    /\ wg' = wg + 1
    /\ taskPc' = [taskPc EXCEPT ![next] = "get"]
    /\ next' = next + 1
    /\ UNCHANGED <<Exporters, ExportersHTTPTimeout, Deduplicate, mainPc,
                   responsesMu, responses, taskPart, taskLen, mfs, names,
                   encoded, output, encErr, dedupVars, peer>>

Get(t) ==
    /\ taskPc[t] = "get"
    /\ LET r == HttpGet(Exporters[t], ExportersHTTPTimeout) IN
         /\ r # "blocked"
         /\ IF r = "err"
            THEN /\ taskPc' = [taskPc EXCEPT ![t] = "done"]
                 /\ wg' = wg - 1
            ELSE /\ taskPc' = [taskPc EXCEPT ![t] = "parse"]
                 /\ wg' = wg
    /\ UNCHANGED <<Exporters, ExportersHTTPTimeout, Deduplicate, mainPc, next,
                   responsesMu, responses, taskPart, taskLen, mfs, names,
                   encoded, output, encErr, dedupVars, peer>>

Parse(t) ==
    /\ taskPc[t] = "parse"
    /\ LET r == TextToMetricFamilies(Exporters[t]) IN
         IF ParseFailed(r)
         THEN /\ taskPc' = [taskPc EXCEPT ![t] = "done"]
              /\ wg' = wg - 1
              /\ taskPart' = taskPart
         ELSE /\ taskPc' = [taskPc EXCEPT ![t] = "lock"]
              /\ wg' = wg
              /\ taskPart' = [taskPart EXCEPT ![t] = r.part]
    /\ UNCHANGED <<Exporters, ExportersHTTPTimeout, Deduplicate, mainPc, next,
                   responsesMu, responses, taskLen, mfs, names,
                   encoded, output, encErr, dedupVars, peer>>

Lock(t) ==
    /\ taskPc[t] = "lock"
    /\ MutexFree
    /\ responsesMu' = t
    /\ taskPc' = [taskPc EXCEPT ![t] = "append"]
    /\ UNCHANGED <<Exporters, ExportersHTTPTimeout, Deduplicate, mainPc, next,
                   wg, responses, taskPart, taskLen, mfs, names,
                   encoded, output, encErr, dedupVars, peer>>

\* append(responses, part) reads the slice ...
AppendRead(t) ==
    /\ taskPc[t] = "append"
    /\ taskLen' = [taskLen EXCEPT ![t] = SliceLen(responses)]
    /\ taskPc' = [taskPc EXCEPT ![t] = "store"]
    /\ UNCHANGED <<Exporters, ExportersHTTPTimeout, Deduplicate, mainPc, next,
                   wg, responsesMu, responses, taskPart, mfs, names,
                   encoded, output, encErr, dedupVars, peer>>

\* ... and stores the slice with part at the index after the length read
AppendStore(t) ==
    /\ taskPc[t] = "store"
    /\ responses' = StoreAfter(responses, taskLen[t], taskPart[t])
    /\ taskPc' = [taskPc EXCEPT ![t] = "unlock"]
    /\ UNCHANGED <<Exporters, ExportersHTTPTimeout, Deduplicate, mainPc, next,
                   wg, responsesMu, taskPart, taskLen, mfs, names,
                   encoded, output, encErr, dedupVars, peer>>

\* the success path without responsesMu.Unlock()
UnlockForgotten(t) ==
    /\ taskPc[t] = "unlock"
    /\ taskPc' = [taskPc EXCEPT ![t] = "exit"]
    /\ UNCHANGED <<Exporters, ExportersHTTPTimeout, Deduplicate, mainPc, next,
                   wg, responsesMu, responses, taskPart, taskLen, mfs, names,
                   encoded, output, encErr, dedupVars, peer>>

Unlock(t) ==
    /\ taskPc[t] = "unlock"
    /\ responsesMu' = 0
    /\ taskPc' = [taskPc EXCEPT ![t] = "exit"]
    /\ UNCHANGED <<Exporters, ExportersHTTPTimeout, Deduplicate, mainPc, next,
                   wg, responses, taskPart, taskLen, mfs, names,
                   encoded, output, encErr, dedupVars, peer>>

\* the deferred wg.Done() of the success path
Done(t) ==
    /\ taskPc[t] = "exit"
    /\ wg' = wg - 1
    /\ taskPc' = [taskPc EXCEPT ![t] = "done"]
    /\ UNCHANGED <<Exporters, ExportersHTTPTimeout, Deduplicate, mainPc, next,
                   responsesMu, responses, taskPart, taskLen, mfs, names,
                   encoded, output, encErr, dedupVars, peer>>

Wait ==
    /\ mainPc = "loop"
    /\ next > Len(Exporters)
    /\ WgWait
    /\ mainPc' = "merge"
    /\ UNCHANGED <<Exporters, ExportersHTTPTimeout, Deduplicate, next, wg,
                   responsesMu, responses, taskPc, taskPart, taskLen, mfs,
                   names, encoded, output, encErr, dedupVars, peer>>

MergeResponses ==
    /\ mainPc = "merge"
    /\ mfs' = MergeAll(responses)
    /\ mainPc' = "dedup"
    /\ UNCHANGED <<Exporters, ExportersHTTPTimeout, Deduplicate, next, wg,
                   responsesMu, responses, taskPc, taskPart, taskLen,
                   names, encoded, output, encErr, dedupVars, peer>>

\* the seen map shared by the families, walked in name order
DeduplicateAllSharedSeen(m) ==
    [n \in DOMAIN m |->
        LET before == {k \in DOMAIN m : StrLess(k, n)}
            seen == UNION {{labelSignature(m[k].Metric[j].Label) :
                              j \in 1..Len(m[k].Metric)} : k \in before}
        IN  [m[n] EXCEPT !.Metric = DedupLoop(@, 1, seen, <<>>)]]

\* for n, mf := range mfs { mfs[n] = deduplicateMetricFamily(mf) }
DeduplicateAll(m) == [n \in DOMAIN m |-> deduplicateMetricFamily(m[n])]

\* the deduplication done whatever h.Deduplicate
DedupFamiliesAlways ==
    /\ mainPc = "dedup"
    /\ mfs' = DeduplicateAll(mfs)
    /\ mainPc' = "names"
    /\ UNCHANGED <<Exporters, ExportersHTTPTimeout, Deduplicate, next, wg,
                   responsesMu, responses, taskPc, taskPart, taskLen,
                   names, encoded, output, encErr, dedupVars, peer>>

DedupFamilies ==
    /\ mainPc = "dedup"
    /\ mfs' = IF Deduplicate THEN DeduplicateAll(mfs) ELSE mfs
    /\ mainPc' = "names"
    /\ UNCHANGED <<Exporters, ExportersHTTPTimeout, Deduplicate, next, wg,
                   responsesMu, responses, taskPc, taskPart, taskLen,
                   names, encoded, output, encErr, dedupVars, peer>>

SortedNames(m) == SortStrings(SetToSeq(DOMAIN m))

SortNames ==
    /\ mainPc = "names"
    /\ names' = SortedNames(mfs)
    /\ mainPc' = "encode"
    /\ UNCHANGED <<Exporters, ExportersHTTPTimeout, Deduplicate, next, wg,
                   responsesMu, responses, taskPc, taskPart, taskLen,
                   mfs, encoded, output, encErr, dedupVars, peer>>

\* the encoding loop going on after an error
EncodeContinue ==
    /\ mainPc = "encode"
    /\ Len(encoded) < Len(names)
    /\ LET n == names[Len(encoded) + 1] IN
         /\ encoded' = Append(encoded, n)
         /\ \E ok \in BOOLEAN :
              IF ok
              THEN /\ output' = output \o EncodeText(mfs[n])
                   /\ UNCHANGED <<mainPc, encErr>>
              ELSE /\ encErr' = TRUE
                   /\ UNCHANGED <<mainPc, output>>
    /\ UNCHANGED <<Exporters, ExportersHTTPTimeout, Deduplicate, next, wg,
                   responsesMu, responses, taskPc, taskPart, taskLen,
                   mfs, names, dedupVars, peer>>

\* one iteration of the encoding loop; the writer accepts the family or not
Encode ==
    /\ mainPc = "encode"
    /\ Len(encoded) < Len(names)
    /\ LET n == names[Len(encoded) + 1] IN
         /\ encoded' = Append(encoded, n)
         /\ \E ok \in BOOLEAN :
              IF ok
              THEN /\ output' = output \o EncodeText(mfs[n])
                   /\ UNCHANGED <<mainPc, encErr>>
              ELSE /\ encErr' = TRUE
                   /\ mainPc' = "done"
                   /\ output' = output
    /\ UNCHANGED <<Exporters, ExportersHTTPTimeout, Deduplicate, next, wg,
                   responsesMu, responses, taskPc, taskPart, taskLen,
                   mfs, names, dedupVars, peer>>

Return ==
    /\ mainPc = "encode"
    /\ Len(encoded) = Len(names)
    /\ mainPc' = "done"
    /\ UNCHANGED <<Exporters, ExportersHTTPTimeout, Deduplicate, next, wg,
                   responsesMu, responses, taskPc, taskPart, taskLen,
                   mfs, names, encoded, output, encErr, dedupVars, peer>>

\* no second call of Merge
NoPeer == [pc |-> "none"]

ExporterLists == UNION {[1..n -> URLs] : n \in 0..MaxExporters}

Init ==
    /\ Exporters \in ExporterLists
    /\ ExportersHTTPTimeout \in {0, 1}
    /\ Deduplicate \in BOOLEAN
    /\ mainPc = "loop"
    /\ next = 1
    /\ wg = 0
    /\ responsesMu = 0
    /\ responses = MakeResponses(ResponsesLen)
    /\ taskPc = [t \in Tasks |-> "idle"]
    /\ taskPart = [t \in Tasks |-> NilMap]
    /\ taskLen = [t \in Tasks |-> 0]
    /\ mfs = NilMap
    /\ names = <<>>
    /\ encoded = <<>>
    /\ output = <<>>
    /\ encErr = FALSE
    /\ mf = MetricFamily(UP, "", "", <<>>)
    /\ once = mf
    /\ twice = mf
    /\ dpc = "unused"
    /\ peer = NoPeer

Next ==
    \/ Spawn
    \/ \E t \in Tasks : Get(t)
    \/ \E t \in Tasks : Parse(t)
    \/ \E t \in Tasks : Lock(t)
    \/ \E t \in Tasks : AppendRead(t)
    \/ \E t \in Tasks : AppendStore(t)
    \/ \E t \in Tasks : Unlock(t)
    \/ \E t \in Tasks : Done(t)
    \/ Wait
    \/ MergeResponses
    \/ DedupFamilies
    \/ SortNames
    \/ Encode
    \/ Return

Spec == Init /\ [][Next]_vars

\* a fetch goroutine and the goroutine of Merge are each scheduled as long as
\* they can take a step
TaskStep(t) ==
    /\ t \in Tasks
    /\ \/ Get(t) \/ Parse(t) \/ Lock(t) \/ AppendRead(t) \/ AppendStore(t)
       \/ Unlock(t) \/ Done(t)

MainStep ==
    Spawn \/ Wait \/ MergeResponses \/ DedupFamilies \/ SortNames \/ Encode
    \/ Return

FairSpec ==
    /\ Spec
    /\ WF_vars(MainStep)
    /\ \A t \in 1..MaxExporters : WF_vars(TaskStep(t))

(***************************************************************************)
(* Two concurrent calls of Merge on the same Handler (ServeHTTP serving    *)
(* two requests). The first call is the one modelled above; the second     *)
(* has its own mfs, responses, responsesMu, wg and goroutines, held in the *)
(* record peer, and takes the same steps.                                  *)
(***************************************************************************)
\* the locals of a call of Merge at its start
PeerStart ==
    [pc |-> "loop", next |-> 1, wg |-> 0, responsesMu |-> 0,
     responses |-> MakeResponses(ResponsesLen),
     taskPc |-> [t \in Tasks |-> "idle"],
     taskPart |-> [t \in Tasks |-> NilMap],
     taskLen |-> [t \in Tasks |-> 0],
     mfs |-> NilMap, names |-> <<>>, encoded |-> <<>>, output |-> <<>>,
     encErr |-> FALSE]

\* an accumulator shared with the first call
PeerAccumulatorShared(st) ==
    [st.responses EXCEPT !.appended = responses.appended \o @]

\* the slice the merge loop of the second call walks: its own responses
PeerAccumulator(st) == st.responses

\* the steps of fetch goroutine t of the second call
PeerTaskSucc(st, t) ==
    CASE st.taskPc[t] = "get" ->
           LET r == HttpGet(Exporters[t], ExportersHTTPTimeout) IN
           IF r = "blocked" THEN {}
           ELSE IF r = "err"
           THEN {[st EXCEPT !.taskPc[t] = "done", !.wg = @ - 1]}
           ELSE {[st EXCEPT !.taskPc[t] = "parse"]}
      [] st.taskPc[t] = "parse" ->
           LET r == TextToMetricFamilies(Exporters[t]) IN
           IF ParseFailed(r)
           THEN {[st EXCEPT !.taskPc[t] = "done", !.wg = @ - 1]}
           ELSE {[st EXCEPT !.taskPc[t] = "lock", !.taskPart[t] = r.part]}
      [] st.taskPc[t] = "lock" ->
           IF st.responsesMu = 0
           THEN {[st EXCEPT !.responsesMu = t, !.taskPc[t] = "append"]}
           ELSE {}
      [] st.taskPc[t] = "append" ->
           {[st EXCEPT !.taskLen[t] = SliceLen(st.responses),
                       !.taskPc[t] = "store"]}
      [] st.taskPc[t] = "store" ->
           {[st EXCEPT !.responses = StoreAfter(@, st.taskLen[t],
                                                st.taskPart[t]),
                       !.taskPc[t] = "unlock"]}
      [] st.taskPc[t] = "unlock" ->
           {[st EXCEPT !.responsesMu = 0, !.taskPc[t] = "exit"]}
      [] st.taskPc[t] = "exit" ->
           {[st EXCEPT !.wg = @ - 1, !.taskPc[t] = "done"]}
      [] OTHER -> {}

\* the steps of the goroutine running the second call
PeerMainSucc(st) ==
    CASE st.pc = "loop" /\ st.next <= Len(Exporters) ->
           {[st EXCEPT !.wg = @ + 1, !.taskPc[st.next] = "get",
                       !.next = @ + 1]}
      [] st.pc = "loop" /\ st.next > Len(Exporters) ->
           IF st.wg = 0 THEN {[st EXCEPT !.pc = "merge"]} ELSE {}
      [] st.pc = "merge" ->
           {[st EXCEPT !.mfs = MergeAll(PeerAccumulator(st)), !.pc = "dedup"]}
      [] st.pc = "dedup" ->
           {[st EXCEPT !.mfs = IF Deduplicate THEN DeduplicateAll(@) ELSE @,
                       !.pc = "names"]}
      [] st.pc = "names" ->
           {[st EXCEPT !.names = SortedNames(st.mfs), !.pc = "encode"]}
      [] st.pc = "encode" /\ Len(st.encoded) < Len(st.names) ->
           LET n == st.names[Len(st.encoded) + 1] IN
           {[st EXCEPT !.encoded = Append(@, n),
                       !.output = @ \o EncodeText(st.mfs[n])],
            [st EXCEPT !.encoded = Append(@, n), !.encErr = TRUE,
                       !.pc = "done"]}
      [] st.pc = "encode" /\ Len(st.encoded) = Len(st.names) ->
           {[st EXCEPT !.pc = "done"]}
      [] OTHER -> {}

PeerSucc(st) == PeerMainSucc(st) \cup UNION {PeerTaskSucc(st, t) : t \in Tasks}

PeerStep ==
    /\ \E st \in PeerSucc(peer) : peer' = st
    /\ UNCHANGED <<mergeVars, dedupVars>>

PairURLs == {"s1", "s2", "down"}
PairExporterLists == UNION {[1..n -> PairURLs] : n \in 0..MaxPairExporters}

PairInit ==
    /\ Exporters \in PairExporterLists
    /\ ExportersHTTPTimeout = 1
    /\ Deduplicate \in BOOLEAN
    /\ mainPc = "loop"
    /\ next = 1
    /\ wg = 0
    /\ responsesMu = 0
    /\ responses = MakeResponses(ResponsesLen)
    /\ taskPc = [t \in Tasks |-> "idle"]
    /\ taskPart = [t \in Tasks |-> NilMap]
    /\ taskLen = [t \in Tasks |-> 0]
    /\ mfs = NilMap
    /\ names = <<>>
    /\ encoded = <<>>
    /\ output = <<>>
    /\ encErr = FALSE
    /\ mf = MetricFamily(UP, "", "", <<>>)
    /\ once = mf
    /\ twice = mf
    /\ dpc = "unused"
    /\ peer = PeerStart

PairNext == Next \/ PeerStep

PairSpec == PairInit /\ [][PairNext]_vars

(***************************************************************************)
(* The accumulator filled by more sources than its initial length: the     *)
(* appends, which the mutex makes one at a time, followed by the merge     *)
(* loop.                                                                   *)
(***************************************************************************)
ManySources == ResponsesLen + Beyond

\* the URLs whose fetch and parse succeed
GoodURLs == {u \in URLs : HttpGet(u, 1) = "resp" /\ ~TextToMetricFamilies(u).err}

\* ManySources exporters, alternating between the two URLs of pattern
Alternating(pattern) == [k \in 1..ManySources |-> pattern[((k - 1) % 2) + 1]]

ManyInit ==
    /\ Exporters \in {Alternating(pattern) : pattern \in [1..2 -> GoodURLs]}
    /\ ExportersHTTPTimeout = 1
    /\ Deduplicate = FALSE
    /\ mainPc = "appends"
    /\ next = 1
    /\ wg = 0
    /\ responsesMu = 0
    /\ responses = MakeResponses(ResponsesLen)
    /\ taskPc = <<>>
    /\ taskPart = <<>>
    /\ taskLen = <<>>
    /\ mfs = NilMap
    /\ names = <<>>
    /\ encoded = <<>>
    /\ output = <<>>
    /\ encErr = FALSE
    /\ mf = MetricFamily(UP, "", "", <<>>)
    /\ once = mf
    /\ twice = mf
    /\ dpc = "unused"
    /\ peer = NoPeer

\* the append of the next source's part, under the mutex
ManyAppend ==
    /\ mainPc = "appends"
    /\ next <= Len(Exporters)
    /\ responses' = StoreAfter(responses, SliceLen(responses),
                               TextToMetricFamilies(Exporters[next]).part)
    /\ next' = next + 1
    /\ UNCHANGED <<Exporters, ExportersHTTPTimeout, Deduplicate, mainPc, wg,
                   responsesMu, taskPc, taskPart, taskLen, mfs, names,
                   encoded, output, encErr, dedupVars, peer>>

\* the merge loop after the last append
ManyMerge ==
    /\ mainPc = "appends"
    /\ next > Len(Exporters)
    /\ mfs' = MergeAll(responses)
    /\ mainPc' = "merged"
    /\ UNCHANGED <<Exporters, ExportersHTTPTimeout, Deduplicate, next, wg,
                   responsesMu, responses, taskPc, taskPart, taskLen, names,
                   encoded, output, encErr, dedupVars, peer>>

ManyNext == ManyAppend \/ ManyMerge

ManySpec == ManyInit /\ [][ManyNext]_vars

(***************************************************************************)
(* deduplicateMetricFamily applied to bounded families, once and twice     *)
(***************************************************************************)
AB == <<LabelPair(<<"a">>, <<"1">>), LabelPair(<<"b">>, <<"2">>)>>
BA == <<LabelPair(<<"b">>, <<"2">>), LabelPair(<<"a">>, <<"1">>)>>
AComma == <<LabelPair(<<"a">>, <<"1", ",", "b", "=", "2">>)>>

LabelLists == {A1, AB, BA, AComma}
SampleValues == {0, 1}
Series == {Metric(l, v) : l \in LabelLists, v \in SampleValues}
SeriesLists == UNION {[1..n -> Series] : n \in 0..MaxSeries}

DedupInit ==
    /\ mf \in {MetricFamily(UP, "h1", "GAUGE", ms) : ms \in SeriesLists}
    /\ once = mf
    /\ twice = mf
    /\ dpc = "start"
    /\ Exporters = <<>>
    /\ ExportersHTTPTimeout = 0
    /\ Deduplicate = TRUE
    /\ mainPc = "unused"
    /\ next = 1
    /\ wg = 0
    /\ responsesMu = 0
    /\ responses = MakeResponses(0)
    /\ taskPc = <<>>
    /\ taskPart = <<>>
    /\ taskLen = <<>>
    /\ mfs = NilMap
    /\ names = <<>>
    /\ encoded = <<>>
    /\ output = <<>>
    /\ encErr = FALSE
    /\ peer = NoPeer

DedupOnce ==
    /\ dpc = "start"
    /\ once' = deduplicateMetricFamily(mf)
    /\ dpc' = "once"
    /\ UNCHANGED <<mf, twice, mergeVars, peer>>

DedupTwice ==
    /\ dpc = "once"
    /\ twice' = deduplicateMetricFamily(once)
    /\ dpc' = "twice"
    /\ UNCHANGED <<mf, once, mergeVars, peer>>

DedupNext == DedupOnce \/ DedupTwice

DedupSpec == DedupInit /\ [][DedupNext]_vars

(***************************************************************************)
(* Properties of deduplicateMetricFamily and labelSignature (DedupSpec)    *)
(***************************************************************************)
Signatures(ms) == {labelSignature(ms[j].Label) : j \in 1..Len(ms)}

\* indices of ms whose signature occurs at no earlier index
FirstIndices(ms) ==
    {j \in 1..Len(ms) :
        \A i \in 1..(j - 1) :
            labelSignature(ms[i].Label) # labelSignature(ms[j].Label)}

\* the r-th smallest element of a set K of indices
Nth(K, r) == CHOOSE j \in K : Cardinality({i \in K : i <= j}) = r

\* the label set of a series as a mapping, i.e. its set of (name, value) pairs
LabelSet(labels) == {<<labels[j].Name, labels[j].Value>> : j \in 1..Len(labels)}

\* indices of ms whose label set occurs at no earlier index
FirstLabelSetIndices(ms) ==
    {j \in 1..Len(ms) :
        \A i \in 1..(j - 1) : LabelSet(ms[i].Label) # LabelSet(ms[j].Label)}

Applied == dpc \in {"once", "twice"}

\* C8: deduplicateMetricFamily is a stable first-occurrence filter: its result
\* is exactly the subsequence of the input series whose label signature occurs
\* at no earlier index, so it holds one series per distinct signature, in
\* input order, each with its own sample value; the metadata is untouched.
C8_StableFirstOccurrence ==
    Applied =>
        LET K == FirstIndices(mf.Metric) IN
        /\ Len(once.Metric) = Cardinality(K)
        /\ \A r \in 1..Len(once.Metric) : once.Metric[r] = mf.Metric[Nth(K, r)]
        /\ Signatures(once.Metric) = Signatures(mf.Metric)
        /\ Cardinality(Signatures(once.Metric)) = Len(once.Metric)
        /\ once.Name = mf.Name /\ once.Help = mf.Help /\ once.Type = mf.Type

\* a duplicate was dropped from between two survivors whose sample values
\* differ from the dropped one's
C8_Witness ==
    /\ dpc = "once"
    /\ Len(mf.Metric) = 3
    /\ Len(once.Metric) = 2
    /\ labelSignature(mf.Metric[1].Label) = labelSignature(mf.Metric[2].Label)
    /\ mf.Metric[1].Value # mf.Metric[2].Value
    /\ once.Metric = <<mf.Metric[1], mf.Metric[3]>>

\* C9: deduplication identity is the label set alone: a series is dropped if
\* and only if a series with the same label set (the same name-to-value
\* mapping, whatever the label order and the sample values) precedes it, also
\* when label values contain ',' or '='.
C9_IdentityIsLabelSet ==
    Applied =>
        LET K == FirstLabelSetIndices(mf.Metric) IN
        /\ Len(once.Metric) = Cardinality(K)
        /\ \A r \in 1..Len(once.Metric) : once.Metric[r] = mf.Metric[Nth(K, r)]

\* C10: deduplication is idempotent: a second application returns the same
\* series list and the same metadata as the first.
C10_Idempotent == (dpc = "twice") => (twice = once)

\* the first application removed a series and kept at least two
C10_Witness ==
    /\ dpc = "twice"
    /\ Len(once.Metric) < Len(mf.Metric)
    /\ Len(once.Metric) >= 2
    /\ twice = once

(***************************************************************************)
(* Properties of Handler.Merge (Spec, FairSpec)                            *)
(***************************************************************************)
\* the tasks whose fetch returns a response and whose body parses
SucceededTasks ==
    {t \in Tasks :
        /\ HttpGet(Exporters[t], ExportersHTTPTimeout) = "resp"
        /\ ~TextToMetricFamilies(Exporters[t]).err}

\* the tasks whose fetch fails (connection error or timeout) or whose body
\* fails to parse
FailedTasks ==
    {t \in Tasks :
        \/ HttpGet(Exporters[t], ExportersHTTPTimeout) = "err"
        \/ /\ HttpGet(Exporters[t], ExportersHTTPTimeout) = "resp"
           /\ TextToMetricFamilies(Exporters[t]).err}

PartOf(t) == TextToMetricFamilies(Exporters[t]).part

\* the successful tasks that were answered with a 2xx status
SuccessStatusTasks ==
    {t \in SucceededTasks :
        StatusCode(Exporters[t]) >= 200 /\ StatusCode(Exporters[t]) < 300}

\* the orders in which the tasks of S can append
Orders(S) ==
    {ord \in [1..Cardinality(S) -> S] :
        \A i, j \in 1..Cardinality(S) : i # j => ord[i] # ord[j]}

PartsIn(ord) == [j \in 1..Len(ord) |-> PartOf(ord[j])]

RECURSIVE EncodeAll(_, _)
EncodeAll(m, ns) ==
    IF ns = <<>> THEN <<>> ELSE EncodeText(m[Head(ns)]) \o EncodeAll(m, Tail(ns))

\* what is written for the parts merged in the given order, when no write fails
Document(parts) ==
    LET m == MergeAll(SliceOf(parts))
        d == IF Deduplicate THEN DeduplicateAll(m) ELSE m
    IN  EncodeAll(d, SortedNames(d))

IsPrefix(s, t) == Len(s) <= Len(t) /\ s = SubSeq(t, 1, Len(s))

Returned == mainPc = "done"

\* C1: for fixed Exporters and fixed per-source outcomes, the document written
\* by Merge is the same whatever the order in which the fetch tasks complete
\* (stated for sources that all answer with a 2xx status).
C1_CompletionOrderIrrelevant ==
    (Returned /\ ~encErr /\ SuccessStatusTasks = SucceededTasks) =>
        \A ord \in Orders(SucceededTasks) : output = Document(PartsIn(ord))

\* the series of family n of the successful sources from..Len(Exporters),
\* concatenated in Exporters order
RECURSIVE ConcatInExportersOrder(_, _)
ConcatInExportersOrder(n, from) ==
    IF from > Len(Exporters) THEN <<>>
    ELSE (IF from \in SucceededTasks /\ n \in DOMAIN PartOf(from)
          THEN PartOf(from)[n].Metric ELSE <<>>)
         \o ConcatInExportersOrder(n, from + 1)

\* C2: the merger processes the results in Exporters order: after the merge
\* loop every family's series list is the concatenation of the successful
\* sources' series lists in Exporters order (stated for sources that all
\* answer with a 2xx status).
C2_MergedInExportersOrder ==
    (mainPc = "dedup" /\ SuccessStatusTasks = SucceededTasks) =>
        \A n \in DOMAIN mfs : mfs[n].Metric = ConcatInExportersOrder(n, 1)

\* number of entries of the slice r from index from on that equal part p
CountFrom(r, from, p) ==
    Cardinality({j \in from..SliceLen(r) : SliceAt(r, j) = p})

\* C3: when wg.Wait has returned, the accumulator holds, after its initial
\* empty entries, the part of every successful source exactly once and
\* nothing else.
C3_AccumulatorComplete ==
    (mainPc \notin {"loop"}) =>
        /\ SliceLen(responses) = ResponsesLen + Cardinality(SucceededTasks)
        /\ \A j \in 1..ResponsesLen : SliceAt(responses, j) = NilMap
        /\ \A t \in SucceededTasks :
              CountFrom(responses, ResponsesLen + 1, PartOf(t))
                = Cardinality({u \in SucceededTasks : PartOf(u) = PartOf(t)})

\* two successful tasks have appended and wg.Wait has returned
C3_Witness ==
    /\ mainPc = "merge"
    /\ Cardinality(SucceededTasks) >= 2
    /\ SliceLen(responses) = ResponsesLen + 2

\* C4: a source whose fetch or parse fails contributes nothing and disturbs
\* no sibling: Merge returns with every task finished, and what it wrote is
\* the document of the successful sources alone (all of it, or the part
\* written before a write error).
C4_FailedSourcesContributeNothing ==
    Returned =>
        /\ \A t \in Tasks : taskPc[t] = "done"
        /\ \E ord \in Orders(SucceededTasks) :
              IF encErr THEN IsPrefix(output, Document(PartsIn(ord)))
              ELSE output = Document(PartsIn(ord))

\* Merge returned a non-empty document although a fetch or a parse failed
C4_Witness ==
    /\ Returned
    /\ ~encErr
    /\ output # <<>>
    /\ SucceededTasks # {}
    /\ FailedTasks # {}

\* C5: a source answering with a non-2xx status is a fetch failure: whatever
\* its body, nothing of it is in the document.
C5_NonSuccessStatusContributesNothing ==
    (Returned /\ ~encErr) =>
        \E ord \in Orders(SuccessStatusTasks) : output = Document(PartsIn(ord))

\* C6: Merge never blocks forever, for every ExportersHTTPTimeout >= 0, also
\* when a source accepts the request and never responds.
C6_MergeReturns == <>Returned

\* C7: fan-out/join: one task is started per entry of Exporters and nothing is
\* merged, deduplicated or written, and the accumulator is not read, while a
\* task is unfinished; once the merge loop starts no task is left to append.
C7_JoinBeforeMerge ==
    /\ (\E t \in Tasks : taskPc[t] # "done") =>
          /\ mainPc = "loop"
          /\ mfs = NilMap /\ names = <<>> /\ encoded = <<>> /\ output = <<>>
    /\ (mainPc # "loop") =>
          /\ next = Len(Exporters) + 1
          /\ wg = 0
          /\ responsesMu = 0

\* Merge wrote a document after two tasks had been started and had finished
C7_Witness ==
    /\ Returned
    /\ Len(Exporters) >= 2
    /\ output # <<>>
    /\ \A t \in Tasks : taskPc[t] = "done"

\* the families held by the accumulator, merged in slice order
Merged == MergeAll(responses)

AfterDedup == mainPc \in {"names", "encode", "done"}

\* C11: the families are handed to the encoder in strictly ascending byte
\* order of their names, each name of the merged map exactly once, whatever
\* the order in which the families entered the map.
C11_AscendingNamesOnce ==
    (mainPc \in {"encode", "done"}) =>
        /\ \A i \in 1..(Len(names) - 1) : StrLess(names[i], names[i + 1])
        /\ {names[i] : i \in 1..Len(names)} = DOMAIN mfs
        /\ Len(names) = Cardinality(DOMAIN mfs)
        /\ IsPrefix(encoded, names)
        /\ (Returned /\ ~encErr) => encoded = names

\* family up entered the map before family http, and http was encoded first
C11_Witness ==
    /\ Returned
    /\ ~encErr
    /\ Len(responses.appended) = 2
    /\ DOMAIN responses.appended[1] = {UP}
    /\ encoded = <<HTTP, UP>>

\* C12: with Deduplicate false the map that is serialized is the merger's
\* result unchanged, series with identical label sets included.
C12_NoDedupWhenDisabled ==
    (~Deduplicate /\ AfterDedup) =>
        /\ mfs = Merged
        /\ (Returned /\ ~encErr) => output = EncodeAll(Merged, names)

\* a family was written with two series of the same label signature
C12_Witness ==
    /\ ~Deduplicate
    /\ Returned
    /\ ~encErr
    /\ output # <<>>
    /\ \E n \in DOMAIN mfs :
          Cardinality(Signatures(mfs[n].Metric)) < Len(mfs[n].Metric)

\* the entries of the accumulator, in slice order, that hold family n
Holders(n) ==
    {j \in 1..Len(responses.appended) : n \in DOMAIN responses.appended[j]}

\* the first entry of the accumulator that holds family n
FirstHolder(n) ==
    responses.appended[CHOOSE j \in Holders(n) : \A i \in Holders(n) : j <= i]

\* C13: a merged family keeps the name, help and type of the first result
\* processed that holds its name; later results change only its series.
C13_FirstSeenMetadataWins ==
    (mainPc \notin {"loop", "merge"}) =>
        \A n \in DOMAIN mfs :
            /\ Holders(n) # {}
            /\ mfs[n].Name = FirstHolder(n)[n].Name
            /\ mfs[n].Help = FirstHolder(n)[n].Help
            /\ mfs[n].Type = FirstHolder(n)[n].Type

\* two results hold family up with different help and type
C13_Witness ==
    /\ Returned
    /\ Cardinality(Holders(UP)) = 2
    /\ responses.appended[1][UP].Help # responses.appended[2][UP].Help
    /\ responses.appended[1][UP].Type # responses.appended[2][UP].Type
    /\ mfs[UP].Help = responses.appended[1][UP].Help

\* C14: after a write error no further family is encoded: the names handed to
\* the encoder are a prefix of the sorted names ending at the failing one,
\* Merge has returned, and what was written stays written.
C14_WriteErrorAborts ==
    /\ [](/\ IsPrefix(encoded, names)
          /\ encErr =>
                /\ Returned
                /\ encoded # <<>>
                /\ output = EncodeAll(mfs, SubSeq(encoded, 1, Len(encoded) - 1))
          /\ (~encErr /\ mainPc \in {"encode", "done"}) =>
                output = EncodeAll(mfs, encoded))
    /\ [][encErr => (encoded' = encoded /\ output' = output)]_vars
    /\ [][IsPrefix(output, output')]_vars

\* the write of the first of two families failed and the second was not
\* handed to the encoder
C14_Witness ==
    /\ encErr
    /\ Returned
    /\ Len(names) = 2
    /\ Len(encoded) = 1

\* C17: deduplication works on each merged family by itself: a family keeps
\* exactly the first occurrences of the signatures among its own series, and
\* every family name of the merged map is still there.
C17_DedupPerFamily ==
    (Deduplicate /\ AfterDedup) =>
        /\ DOMAIN mfs = DOMAIN Merged
        /\ \A n \in DOMAIN mfs :
              LET K == FirstIndices(Merged[n].Metric) IN
              /\ Len(mfs[n].Metric) = Cardinality(K)
              /\ \A r \in 1..Len(mfs[n].Metric) :
                    mfs[n].Metric[r] = Merged[n].Metric[Nth(K, r)]

\* after deduplication two families each hold a series of the same label set
C17_Witness ==
    /\ Deduplicate
    /\ Returned
    /\ UP \in DOMAIN mfs /\ HTTP \in DOMAIN mfs
    /\ Signatures(mfs[UP].Metric) \cap Signatures(mfs[HTTP].Metric) # {}

RECURSIVE SumLen(_, _)
\* the number of series of family n in the entries j.. of the accumulator
SumLen(n, j) ==
    IF j > Len(responses.appended) THEN 0
    ELSE (IF n \in DOMAIN responses.appended[j]
          THEN Len(responses.appended[j][n].Metric) ELSE 0) + SumLen(n, j + 1)

\* C19: the merge loop conserves series: after it a family has as many
\* series as the collected results hold for its name, and the merged names
\* are the union of the results' names.
C19_MergeConservesSeries ==
    (mainPc = "dedup") =>
        /\ DOMAIN mfs = UNION {DOMAIN responses.appended[j] :
                                 j \in 1..Len(responses.appended)}
        /\ \A n \in DOMAIN mfs : Len(mfs[n].Metric) = SumLen(n, 1)

\* a family was merged from two results
C19_Witness ==
    /\ mainPc = "dedup"
    /\ Cardinality(Holders(UP)) = 2
    /\ Len(mfs[UP].Metric) >= 2

\* C15: with no exporter, or when every fetch or parse fails, Merge returns
\* having encoded no family and written nothing, without an error.
C15_EmptyDocument ==
    /\ []((Returned /\ SucceededTasks = {}) =>
             /\ mfs = NilMap /\ names = <<>> /\ encoded = <<>>
             /\ output = <<>>
             /\ ~encErr)
    /\ (Tasks = FailedTasks) => <>Returned

\* Merge returned an empty document after both of its sources had failed
C15_Witness ==
    /\ Returned
    /\ Len(Exporters) = 2
    /\ Tasks = FailedTasks
    /\ output = <<>>
    /\ ~encErr

\* every fetch returns, with a response or an error
FetchesReturn ==
    \A t \in Tasks : HttpGet(Exporters[t], ExportersHTTPTimeout) # "blocked"

\* C20: provided every fetch returns, Merge returns: the wait-group counter is
\* the number of started tasks that have not yet signalled (so each task
\* signals once and the counter stays at or above zero), and the mutex is held
\* only by a task between Lock and Unlock.
C20_MergeReturnsWhenFetchesReturn ==
    /\ [](/\ wg >= 0
          /\ wg = Cardinality({t \in Tasks : taskPc[t] \notin {"idle", "done"}})
          /\ responsesMu # 0 =>
                /\ responsesMu \in Tasks
                /\ taskPc[responsesMu] \in {"append", "store", "unlock"})
    /\ FetchesReturn => <>Returned

\* Merge returned after one task had left by an error path and another by
\* the success path
C20_Witness ==
    /\ Returned
    /\ FetchesReturn
    /\ wg = 0
    /\ responsesMu = 0
    /\ FailedTasks # {}
    /\ SucceededTasks # {}


(***************************************************************************)
(* Properties of the accumulator beyond its initial length (ManySpec)      *)
(***************************************************************************)
\* the number of exporters of url u
SourcesOf(u) == Cardinality({k \in 1..Len(Exporters) : Exporters[k] = u})

\* the number of series a result of url u holds for family n
SeriesIn(u, n) ==
    LET p == TextToMetricFamilies(u).part
    IN  IF n \in DOMAIN p THEN Len(p[n].Metric) ELSE 0

RECURSIVE SeriesOfAll(_, _)
\* the number of series the results of all exporters of the urls S hold for n
SeriesOfAll(S, n) ==
    IF S = {} THEN 0
    ELSE LET u == CHOOSE v \in S : TRUE
         IN  SourcesOf(u) * SeriesIn(u, n) + SeriesOfAll(S \ {u}, n)

\* C18: the initial length 1024 of responses is no limit and its placeholder
\* entries contribute nothing: with more than 1024 successful sources every
\* append is kept after the entries before it, the merge loop sees every
\* source's result, the merged set is the one merged from the results alone,
\* and each family holds the series of all results.
C18_PresizeIsOnlyAHint ==
    /\ (mainPc = "appends") =>
           /\ Len(responses.appended) = next - 1
           /\ SliceLen(responses) = ResponsesLen + next - 1
    /\ (mainPc = "merged") =>
           /\ Len(responses.appended) = Len(Exporters)
           /\ \A k \in 1..Len(Exporters) :
                  SliceAt(responses, ResponsesLen + k)
                      = TextToMetricFamilies(Exporters[k]).part
           /\ mfs = MergeAll(SliceOf(responses.appended))
           /\ DOMAIN mfs = UNION {DOMAIN TextToMetricFamilies(Exporters[k]).part :
                                     k \in 1..Len(Exporters)}
           /\ \A n \in DOMAIN mfs :
                  Len(mfs[n].Metric)
                      = SeriesOfAll({Exporters[k] : k \in 1..Len(Exporters)}, n)

\* more than 1024 results of two different exporters were merged
C18_Witness ==
    /\ mainPc = "merged"
    /\ Len(responses.appended) > ResponsesLen
    /\ Exporters[1] # Exporters[2]
    /\ mfs # NilMap

(***************************************************************************)
(* Properties of two concurrent calls of Merge (PairSpec)                  *)
(***************************************************************************)
\* the accumulators a call running alone can end with: the parts of its
\* successful tasks, in some order
AloneAccumulators == {PartsIn(ord) : ord \in Orders(SucceededTasks)}

\* a call that returned with this accumulator, output and write error did
\* what it does running alone
AsAlone(acc, out, failed) ==
    /\ acc.nils = ResponsesLen
    /\ acc.appended \in AloneAccumulators
    /\ IF failed THEN IsPrefix(out, Document(acc.appended))
                 ELSE out = Document(acc.appended)

\* C16: two concurrent calls of Merge on one Handler do not interfere: under
\* every interleaving each call that returned has collected exactly the
\* results of its own successful fetches and has written the document it
\* writes for them when it runs alone (a prefix of it after a write error).
C16_ConcurrentCallsIndependent ==
    /\ Returned => AsAlone(responses, output, encErr)
    /\ (peer.pc = "done") => AsAlone(peer.responses, peer.output, peer.encErr)

\* both calls returned and each wrote a document
C16_Witness ==
    /\ Returned /\ ~encErr /\ output # <<>>
    /\ peer.pc = "done" /\ ~peer.encErr /\ peer.output # <<>>

====
